---- MODULE Spec2Model ----
(***************************************************************************)
(* Model of the passkey (WebAuthn) ceremony handlers of pw2:               *)
(*   src/pw2/src/backend/handlers_unauth.rs  (the HTTP handlers)           *)
(*   src/pw2/src/utils/webauthn.rs           (the ceremony wrappers)       *)
(*   src/pw2/src/backend/middlewares.rs      (the session gate)            *)
(* and of the pure functions of pw3:                                       *)
(*   src/pw3/src/authorization.rs            (the access-control wrapper)  *)
(*   src/pw3/src/utils/password_utils.rs     (password hashing)            *)
(*   src/pw3/src/utils/input_validation.rs   (validated input types)       *)
(*                                                                         *)
(* Granularity.  The handlers are async functions run concurrently by the  *)
(* runtime.  A handler touches shared state only under one of the RwLocks  *)
(* (REGISTRATION_STATES, AUTHENTICATION_STATES, CREDENTIAL_STORE) or       *)
(* through the database module, so each handler is cut at its lock         *)
(* acquisitions: the code between two acquisitions reads only the          *)
(* request's own data and is merged with the critical section after it.    *)
(* The two begin handlers are taken as one step each.                      *)
(*                                                                         *)
(* Each step is an operator from the state and the request fields it reads *)
(* to its outcome: the new value of what it writes and, when the handler   *)
(* returns there, the HTTP response.  The action of the step draws the     *)
(* request fields and applies the outcome.                                 *)
(*                                                                         *)
(* Outside src/: crate::database::{user, token} (the user table and the    *)
(* token table) and the webauthn-rs library.  Both are modelled from their *)
(* call sites and from the description of their contracts.                 *)
(***************************************************************************)
EXTENDS Integers, FiniteSets, Sequences, TLC

\* ------------------------------------------------------------------ bounds
\* Number of ceremony ids (Uuid::new_v4 values) a run may issue.
MaxStateIds == 2
\* Largest signature counter an authenticator reports.
MaxCounter == 1
\* Largest number of live tokens per identity in the token table.
MaxTokens == 1
\* Last instant of the clock.
MaxTime == 2

\* ------------------------------------------------------------------ domains
Emails == {"a@x", "b@x"}
Sessions == {"s1"}
Procs == {1, 2}
CredIds == {1, 2}
StateIds == 1..MaxStateIds
\* A state_id a client can send: an id the server may issue, or a well-formed
\* UUID that was never issued (0).
ClientStateIds == 0..MaxStateIds
Counters == 0..MaxCounter
Origins == {"http://localhost:8080", "http://evil.example"}
RpOrigin == "http://localhost:8080"

\* Option::None of the source.
None == [none |-> TRUE]

\* The timeout the library puts in the options payload, in clock ticks.
CeremonyTimeout == 1

VARIABLES
    users,                  \* database::user: email -> None | [verified, passkey]
    tokens,                 \* database::token: email -> number of live tokens for it
    CREDENTIAL_STORE,       \* email -> None | Passkey
    REGISTRATION_STATES,    \* state id -> None | PasskeyRegistration
    AUTHENTICATION_STATES,  \* state id -> None | PasskeyAuthentication
    sessions,               \* session -> TRUE iff it holds the "authenticated" key
    nextStateId,            \* the next value of Uuid::new_v4()
    now,                    \* the clock
    pc,                     \* per request slot: where its handler stands
    loc,                    \* per request slot: the handler's local variables
    ret,                    \* the response of the handler call that returned last
    recovered,              \* history: the e-mails whose token reset_account consumed
    args,                   \* pw3: the arguments of the call under study
    result,                 \* pw3: what the call returned, None before it ran
    EMPTY_HASH              \* pw3 password_utils: the LazyLock, None until first use

\* The state of the pw2 handlers and the state of the pw3 functions.
pw2vars == <<users, tokens, CREDENTIAL_STORE, REGISTRATION_STATES, AUTHENTICATION_STATES,
             sessions, nextStateId, now, pc, loc, ret, recovered>>
pw3vars == <<args, result, EMPTY_HASH>>

vars == <<users, tokens, CREDENTIAL_STORE, REGISTRATION_STATES, AUTHENTICATION_STATES,
          sessions, nextStateId, now, pc, loc, ret, recovered, args, result, EMPTY_HASH>>

\* A passkey as webauthn-rs keeps it: credential id and signature counter.
\* The credential id stands for the key pair as well.
Passkey(cred_id, counter) == [cred_id |-> cred_id, counter |-> counter]

\* An HTTP response: the handler that produced it, status code and body/location.
Response(op, status, msg) == [op |-> op, status |-> status, msg |-> msg]

NoLocals == [none |-> TRUE]

Init ==
    /\ users = [e \in Emails |-> None]
    /\ tokens = [e \in Emails |-> 0]
    /\ CREDENTIAL_STORE = [e \in Emails |-> None]
    /\ REGISTRATION_STATES = [s \in StateIds |-> None]
    /\ AUTHENTICATION_STATES = [s \in StateIds |-> None]
    /\ sessions = [s \in Sessions |-> FALSE]
    /\ nextStateId = 1
    /\ now = 0
    /\ pc = [p \in Procs |-> "idle"]
    /\ loc = [p \in Procs |-> NoLocals]
    /\ ret = Response("none", 0, "")
    /\ recovered = {}
    /\ args = None
    /\ result = None
    /\ EMPTY_HASH = None

\* The process starts on a database that already holds a@x, registered with
\* passkey 1 and verified by an earlier run; the in-memory maps are empty.
InitEnrolled ==
    /\ users = [e \in Emails |->
                  IF e = "a@x" THEN [verified |-> TRUE, passkey |-> Passkey(1, 0)]
                  ELSE None]
    /\ tokens = [e \in Emails |-> 0]
    /\ CREDENTIAL_STORE = [e \in Emails |-> None]
    /\ REGISTRATION_STATES = [s \in StateIds |-> None]
    /\ AUTHENTICATION_STATES = [s \in StateIds |-> None]
    /\ sessions = [s \in Sessions |-> FALSE]
    /\ nextStateId = 1
    /\ now = 0
    /\ pc = [p \in Procs |-> "idle"]
    /\ loc = [p \in Procs |-> NoLocals]
    /\ ret = Response("none", 0, "")
    /\ recovered = {}
    /\ args = None
    /\ result = None
    /\ EMPTY_HASH = None

\* ------------------------------------------------------------ database::user
user_exists(email) == users[email] # None

user_get(email) == users[email]

user_get_passkey(email) ==
    IF users[email] = None THEN None ELSE users[email].passkey

\* ---------------------------------------------------------------- webauthn-rs
\* Webauthn::start_passkey_registration: a fresh challenge, and the credential
\* ids to exclude.  created_at is the instant of the begin-call; no code reads it.
start_passkey_registration(user_name, exclude_credentials, challenge) ==
    [user_name |-> user_name, challenge |-> challenge,
     exclude |-> exclude_credentials, created_at |-> now]

\* Webauthn::finish_passkey_registration: Ok (TRUE) or Err (FALSE).
finish_passkey_registration(response, state) ==
    /\ response.origin = RpOrigin
    /\ response.challenge = state.challenge
    /\ response.attestation_ok
    /\ response.cred_id \notin state.exclude

\* Webauthn::start_passkey_authentication: a fresh challenge and the allowed
\* passkeys (a copy of each, counter included).
start_passkey_authentication(user_name, allowed_credentials, challenge) ==
    [user_name |-> user_name, challenge |-> challenge,
     allowed |-> allowed_credentials, created_at |-> now]

\* The signature-counter rule: zero is "no counter", otherwise strictly greater.
counter_ok(reported, stored) == reported = 0 \/ reported > stored

\* Webauthn::finish_passkey_authentication: Ok (TRUE) or Err (FALSE).
finish_passkey_authentication(response, state) ==
    /\ response.origin = RpOrigin
    /\ response.challenge = state.challenge
    /\ \E pk \in state.allowed :
          /\ pk.cred_id = response.cred_id
          /\ counter_ok(response.counter, pk.counter)
    /\ response.sig_ok
    /\ response.user_present

\* What a client can send as the "response" field of a complete-call.
RegisterResponses ==
    [origin : Origins, challenge : ClientStateIds, attestation_ok : BOOLEAN,
     cred_id : CredIds, counter : Counters]

AuthResponses ==
    [origin : Origins, challenge : ClientStateIds, cred_id : CredIds,
     counter : Counters, sig_ok : BOOLEAN, user_present : BOOLEAN]

\* ------------------------------------------------------------ utils/webauthn.rs
begin_registration(store, user_email, challenge) ==
    start_passkey_registration(
        user_email,
        IF store[user_email] = None THEN {} ELSE {store[user_email].cred_id},
        challenge)

begin_authentication(store, user_email, challenge) ==
    start_passkey_authentication(
        user_email,
        IF store[user_email] = None THEN {} ELSE {store[user_email]},
        challenge)

\* complete_authentication, lines 124-136: the library's verdict, passed on.
\* (complete_authentication_unchecked: the slip of dropping the verdict.)
complete_authentication_unchecked(response, state) == TRUE

complete_authentication(response, state) ==
    finish_passkey_authentication(response, state)

\* ------------------------------------------------------- handlers_unauth.rs
ensure_store_contains_known_user_passkey(store, email) ==
    IF store[email] = None /\ user_get_passkey(email) # None
    THEN [store EXCEPT ![email] = user_get_passkey(email)]
    ELSE store

\* The PasskeyRegistration as register_begin files it (lines 67-70), with the
\* reset_mode of the begin-call (line 54) noted beside it.  The note is history:
\* the code keeps no trace of the mode and nothing in the model reads it but
\* the properties.
filed(registration_state, reset_mode) ==
    [user_name |-> registration_state.user_name,
     challenge |-> registration_state.challenge,
     exclude |-> registration_state.exclude,
     created_at |-> registration_state.created_at,
     begun_reset_mode |-> reset_mode]

\* register_begin, lines 41-76.  lookup_ok = FALSE is user::exists returning Err.
\* (register_begin_any_mode: the slip of matching on the lookup alone, so that
\* either mode passes whenever user::exists answered.)
register_begin_any_mode(email_ok, email, reset_mode, lookup_ok) ==
    LET store == ensure_store_contains_known_user_passkey(CREDENTIAL_STORE, email)
        state_id == nextStateId
    IN
    IF ~email_ok
    THEN [store |-> CREDENTIAL_STORE, states |-> REGISTRATION_STATES, issued |-> 0,
          ret |-> Response("register_begin", 400, "Email is required")]
    ELSE IF ~lookup_ok
    THEN [store |-> store, states |-> REGISTRATION_STATES, issued |-> 0,
          ret |-> Response("register_begin", 400, "Invalid registration request")]
    ELSE [store |-> store,
          states |-> [REGISTRATION_STATES EXCEPT
                        ![state_id] = filed(begin_registration(store, email, state_id),
                                             reset_mode)],
          issued |-> 1,
          ret |-> Response("register_begin", 200, "publicKey")]

register_begin(email_ok, email, reset_mode, lookup_ok) ==
    LET store == ensure_store_contains_known_user_passkey(CREDENTIAL_STORE, email)
        state_id == nextStateId
    IN
    IF ~email_ok
    THEN [store |-> CREDENTIAL_STORE, states |-> REGISTRATION_STATES, issued |-> 0,
          ret |-> Response("register_begin", 400, "Email is required")]
    ELSE IF ~lookup_ok \/ reset_mode # user_exists(email)
    THEN [store |-> store, states |-> REGISTRATION_STATES, issued |-> 0,
          ret |-> Response("register_begin", 400, "Invalid registration request")]
    ELSE [store |-> store,
          states |-> [REGISTRATION_STATES EXCEPT
                        ![state_id] = filed(begin_registration(store, email, state_id),
                                             reset_mode)],
          issued |-> 1,
          ret |-> Response("register_begin", 200, "publicKey")]

\* What a client can send to register_begin.  E: the identities of the run.
RegisterBeginRequests(E) ==
    [email_ok : BOOLEAN, email : E, reset_mode : BOOLEAN, lookup_ok : BOOLEAN]

RegisterBegin(E) ==
    \E out \in {register_begin(r.email_ok, r.email, r.reset_mode, r.lookup_ok) :
                  r \in RegisterBeginRequests(E)} :
        /\ nextStateId + out.issued <= MaxStateIds + 1
        /\ CREDENTIAL_STORE' = out.store
        /\ REGISTRATION_STATES' = out.states
        /\ nextStateId' = nextStateId + out.issued
        /\ ret' = out.ret
        /\ UNCHANGED <<pw3vars, recovered, users, tokens, AUTHENTICATION_STATES, sessions, now, pc, loc>>

\* login_begin, lines 151-183.
\* (login_begin_ungated: the slip of leaving out the verified check.)
login_begin_ungated(email_ok, email) ==
    LET store == ensure_store_contains_known_user_passkey(CREDENTIAL_STORE, email)
        state_id == nextStateId
    IN
    IF ~email_ok
    THEN [store |-> CREDENTIAL_STORE, states |-> AUTHENTICATION_STATES, issued |-> 0,
          ret |-> Response("login_begin", 400, "Email is required")]
    ELSE IF user_get(email) = None
    THEN [store |-> store, states |-> AUTHENTICATION_STATES, issued |-> 0,
          ret |-> Response("login_begin", 400, "Invalid authentication request")]
    ELSE [store |-> store,
          states |-> [AUTHENTICATION_STATES EXCEPT
                        ![state_id] = begin_authentication(store, email, state_id)],
          issued |-> 1,
          ret |-> Response("login_begin", 200, "publicKey")]

\* (login_begin_telling: the slip of naming the reason in the rejection.)
login_begin_telling(email_ok, email) ==
    LET store == ensure_store_contains_known_user_passkey(CREDENTIAL_STORE, email)
        state_id == nextStateId
    IN
    IF ~email_ok
    THEN [store |-> CREDENTIAL_STORE, states |-> AUTHENTICATION_STATES, issued |-> 0,
          ret |-> Response("login_begin", 400, "Email is required")]
    ELSE IF user_get(email) = None
    THEN [store |-> store, states |-> AUTHENTICATION_STATES, issued |-> 0,
          ret |-> Response("login_begin", 400, "Invalid authentication request")]
    ELSE IF ~user_get(email).verified
    THEN [store |-> store, states |-> AUTHENTICATION_STATES, issued |-> 0,
          ret |-> Response("login_begin", 400, "Account is not verified")]
    ELSE [store |-> store,
          states |-> [AUTHENTICATION_STATES EXCEPT
                        ![state_id] = begin_authentication(store, email, state_id)],
          issued |-> 1,
          ret |-> Response("login_begin", 200, "publicKey")]

login_begin(email_ok, email) ==
    LET store == ensure_store_contains_known_user_passkey(CREDENTIAL_STORE, email)
        state_id == nextStateId
    IN
    IF ~email_ok
    THEN [store |-> CREDENTIAL_STORE, states |-> AUTHENTICATION_STATES, issued |-> 0,
          ret |-> Response("login_begin", 400, "Email is required")]
    ELSE IF user_get(email) = None
    THEN [store |-> store, states |-> AUTHENTICATION_STATES, issued |-> 0,
          ret |-> Response("login_begin", 400, "Invalid authentication request")]
    ELSE IF ~user_get(email).verified
    THEN [store |-> store, states |-> AUTHENTICATION_STATES, issued |-> 0,
          ret |-> Response("login_begin", 400, "Invalid authentication request")]
    ELSE [store |-> store,
          states |-> [AUTHENTICATION_STATES EXCEPT
                        ![state_id] = begin_authentication(store, email, state_id)],
          issued |-> 1,
          ret |-> Response("login_begin", 200, "publicKey")]

LoginBegin(E) ==
    \E out \in {login_begin(email_ok, email) : email_ok \in BOOLEAN, email \in E} :
        /\ nextStateId + out.issued <= MaxStateIds + 1
        /\ CREDENTIAL_STORE' = out.store
        /\ AUTHENTICATION_STATES' = out.states
        /\ nextStateId' = nextStateId + out.issued
        /\ ret' = out.ret
        /\ UNCHANGED <<pw3vars, recovered, users, tokens, REGISTRATION_STATES, sessions, now, pc, loc>>

\* ------------------------------------------------------------ utils/webauthn.rs
\* complete_registration, lines 76-97: Err leaves the store alone; Ok inserts the
\* new passkey under the e-mail of the complete-call.
\* (complete_registration_unchecked: the slip of storing whatever the verdict.)
complete_registration_unchecked(store, user_email, response, stored_state) ==
    [ok |-> TRUE,
     store |-> [store EXCEPT ![user_email] = Passkey(response.cred_id, response.counter)]]

complete_registration(store, user_email, response, stored_state) ==
    IF finish_passkey_registration(response, stored_state)
    THEN [ok |-> TRUE,
          store |-> [store EXCEPT ![user_email] =
                        Passkey(response.cred_id, response.counter)]]
    ELSE [ok |-> FALSE, store |-> store]

\* ---------------------------------------------------------- the complete-calls
\* REGISTRATION_STATES.write().await.remove(state_id) (lines 105-110), and
\* AUTHENTICATION_STATES likewise (lines 200-205): the entry and the map without it.
\* (remove_lookup_only: the slip of reading the entry with get() and leaving it.)
remove_lookup_only(states, state_id) ==
    IF state_id \in StateIds
    THEN [entry |-> states[state_id], states |-> states]
    ELSE [entry |-> None, states |-> states]

remove(states, state_id) ==
    IF state_id \in StateIds
    THEN [entry |-> states[state_id], states |-> [states EXCEPT ![state_id] = None]]
    ELSE [entry |-> None, states |-> states]

\* Request slots are anonymous: a request that arrives takes the first idle one.
Free(p) == pc[p] = "idle" /\ \A q \in Procs : q < p => pc[q] # "idle"

\* What a client can send to register_complete before the stored state is looked
\* up: each field may be missing or invalid; state_id = -1 is a missing or
\* unparsable "state_id".
RegisterCompleteRequests ==
    [email_ok : BOOLEAN, first_name_ok : BOOLEAN, last_name_ok : BOOLEAN,
     state_id : ClientStateIds \cup {-1}]

\* register_complete, lines 79-110: the request fields are parsed, then the
\* stored state is taken out of REGISTRATION_STATES (states) under the write lock.
register_complete_consume(states, req) ==
    LET removed == remove(states, req.state_id)
        Err(msg) == [states |-> states, pc |-> "idle", loc |-> NoLocals,
                     ret |-> Response("register_complete", 400, msg)]
    IN
    IF ~req.email_ok THEN Err("Email is required")
    ELSE IF ~req.first_name_ok THEN Err("First name is required")
    ELSE IF ~req.last_name_ok THEN Err("Last name is required")
    ELSE IF req.state_id = -1 THEN Err("Invalid request parameters")
    ELSE IF removed.entry = None
    THEN [states |-> removed.states, pc |-> "idle", loc |-> NoLocals,
          ret |-> Response("register_complete", 400, "Invalid registration session")]
    ELSE [states |-> removed.states, pc |-> "rc_verify",
          loc |-> [state_id |-> req.state_id, stored_state |-> removed.entry],
          ret |-> ret]

RegisterCompleteConsume(p) ==
    /\ Free(p)
    /\ \E out \in {register_complete_consume(REGISTRATION_STATES, req) :
                     req \in RegisterCompleteRequests} :
        /\ REGISTRATION_STATES' = out.states
        /\ pc' = [pc EXCEPT ![p] = out.pc]
        /\ loc' = [loc EXCEPT ![p] = out.loc]
        /\ ret' = out.ret
        /\ UNCHANGED <<pw3vars, recovered, users, tokens, CREDENTIAL_STORE, AUTHENTICATION_STATES,
                       sessions, nextStateId, now>>

\* The fields of the register_complete request read after the lookup.
RegisterCompleteFields(E) ==
    [email : E, reset_mode : BOOLEAN, well_formed : BOOLEAN, response : RegisterResponses]

\* register_complete, lines 112-120: the response is parsed and verified, and
\* complete_registration stores the passkey under the write lock.  replaced is
\* what store.insert returned (webauthn.rs 94), the passkey the e-mail had in
\* CREDENTIAL_STORE before; the code drops it, the properties read it.
\* (register_complete_verify_forwarding: the slip of forwarding the library's
\* error text instead of discarding it.)
register_complete_verify_forwarding(p, req) ==
    LET done == complete_registration(CREDENTIAL_STORE, req.email, req.response,
                                      loc[p].stored_state)
    IN
    IF ~req.well_formed
    THEN [store |-> CREDENTIAL_STORE, pc |-> "idle", loc |-> NoLocals,
          ret |-> Response("register_complete", 400, "Invalid response")]
    ELSE IF ~done.ok
    THEN [store |-> done.store, pc |-> "idle", loc |-> NoLocals,
          ret |-> Response("register_complete", 403,
                           IF req.response.origin # RpOrigin THEN "origin mismatch"
                           ELSE IF req.response.challenge # loc[p].stored_state.challenge
                           THEN "challenge mismatch"
                           ELSE "Failed to complete registration")]
    ELSE [store |-> done.store, pc |-> "rc_read",
          loc |-> [state_id |-> loc[p].state_id, stored_state |-> loc[p].stored_state,
                   email |-> req.email, reset_mode |-> req.reset_mode,
                   replaced |-> CREDENTIAL_STORE[req.email]],
          ret |-> ret]

register_complete_verify(p, req) ==
    LET done == complete_registration(CREDENTIAL_STORE, req.email, req.response,
                                      loc[p].stored_state)
    IN
    IF ~req.well_formed
    THEN [store |-> CREDENTIAL_STORE, pc |-> "idle", loc |-> NoLocals,
          ret |-> Response("register_complete", 400, "Invalid response")]
    ELSE IF ~done.ok
    THEN [store |-> done.store, pc |-> "idle", loc |-> NoLocals,
          ret |-> Response("register_complete", 403, "Failed to complete registration")]
    ELSE [store |-> done.store, pc |-> "rc_read",
          loc |-> [state_id |-> loc[p].state_id, stored_state |-> loc[p].stored_state,
                   email |-> req.email, reset_mode |-> req.reset_mode,
                   replaced |-> CREDENTIAL_STORE[req.email]],
          ret |-> ret]

RegisterCompleteVerify(p, E) ==
    /\ pc[p] = "rc_verify"
    /\ \E out \in {register_complete_verify(p, req) : req \in RegisterCompleteFields(E)} :
        /\ CREDENTIAL_STORE' = out.store
        /\ pc' = [pc EXCEPT ![p] = out.pc]
        /\ loc' = [loc EXCEPT ![p] = out.loc]
        /\ ret' = out.ret
        /\ UNCHANGED <<pw3vars, recovered, users, tokens, REGISTRATION_STATES, AUTHENTICATION_STATES,
                       sessions, nextStateId, now>>

\* register_complete, line 122: the passkey is read back from CREDENTIAL_STORE
\* under the read lock.
register_complete_read(p) ==
    [state_id |-> loc[p].state_id, stored_state |-> loc[p].stored_state,
     email |-> loc[p].email, reset_mode |-> loc[p].reset_mode,
     replaced |-> loc[p].replaced,
     passkey |-> CREDENTIAL_STORE[loc[p].email]]

RegisterCompleteRead(p) ==
    /\ pc[p] = "rc_read"
    /\ CREDENTIAL_STORE[loc[p].email] # None   \* .unwrap()
    /\ pc' = [pc EXCEPT ![p] = "rc_persist"]
    /\ loc' = [loc EXCEPT ![p] = register_complete_read(p)]
    /\ UNCHANGED <<pw3vars, recovered, users, tokens, CREDENTIAL_STORE, REGISTRATION_STATES,
                   AUTHENTICATION_STATES, sessions, nextStateId, now, ret>>

\* ------------------------------------------------- database::{user, token}
\* user::create: Err when the row exists or the database fails.
user_create(us, email, db_ok) ==
    IF db_ok /\ us[email] = None
    THEN [ok |-> TRUE, users |-> [us EXCEPT ![email] = [verified |-> FALSE, passkey |-> None]]]
    ELSE [ok |-> FALSE, users |-> us]

\* user::set_passkey: Err when the database fails; no row, nothing written.
user_set_passkey(us, email, passkey, db_ok) ==
    IF db_ok /\ us[email] # None
    THEN [ok |-> TRUE, users |-> [us EXCEPT ![email].passkey = passkey]]
    ELSE [ok |-> db_ok, users |-> us]

\* user::verify: Err when there is no such row.
user_verify(us, email) ==
    IF us[email] # None
    THEN [ok |-> TRUE, users |-> [us EXCEPT ![email].verified = TRUE]]
    ELSE [ok |-> FALSE, users |-> us]

\* token::generate: a new live token for the e-mail; Err when the database fails.
token_generate(ts, email, db_ok) ==
    IF db_ok /\ ts[email] < MaxTokens
    THEN [ts EXCEPT ![email] = @ + 1]
    ELSE ts

\* The results of the three database calls of register_complete (FALSE: Err).
DbResults == [create_ok : BOOLEAN, token_ok : BOOLEAN, set_ok : BOOLEAN]

\* register_complete, lines 124-147: the user row, the verification token and
\* mail, and the passkey are written.
register_complete_persist(p, db) ==
    LET email == loc[p].email
        created == IF loc[p].reset_mode
                   THEN [ok |-> TRUE, users |-> users]
                   ELSE user_create(users, email, db.create_ok)
        stored == user_set_passkey(created.users, email, loc[p].passkey, db.set_ok)
    IN
    IF ~created.ok
    THEN [users |-> users, tokens |-> tokens,
          ret |-> Response("register_complete", 500, "Failed to complete registration")]
    ELSE [users |-> stored.users,
          tokens |-> IF loc[p].reset_mode THEN tokens
                     ELSE token_generate(tokens, email, db.token_ok),
          ret |-> IF stored.ok
                  THEN Response("register_complete", 200, "OK")
                  ELSE Response("register_complete", 500, "Failed to complete registration")]

RegisterCompletePersist(p) ==
    /\ pc[p] = "rc_persist"
    /\ \E out \in {register_complete_persist(p, db) : db \in DbResults} :
        /\ users' = out.users
        /\ tokens' = out.tokens
        /\ pc' = [pc EXCEPT ![p] = "idle"]
        /\ loc' = [loc EXCEPT ![p] = NoLocals]
        /\ ret' = out.ret
        /\ UNCHANGED <<pw3vars, recovered, CREDENTIAL_STORE, REGISTRATION_STATES, AUTHENTICATION_STATES,
                       sessions, nextStateId, now>>

\* What a client can send to login_complete before the stored state is looked up.
LoginCompleteRequests ==
    [has_response : BOOLEAN, well_formed : BOOLEAN, state_id : ClientStateIds \cup {-1}]

\* login_complete, lines 186-205: the request fields are parsed, then the stored
\* state is taken out of AUTHENTICATION_STATES (states) under the write lock.
login_complete_consume(states, req) ==
    LET removed == remove(states, req.state_id)
        Err(msg) == [states |-> states, pc |-> "idle", loc |-> NoLocals,
                     ret |-> Response("login_complete", 400, msg)]
    IN
    IF ~req.has_response THEN Err("Response is required")
    ELSE IF req.state_id = -1 THEN Err("State ID is required")
    ELSE IF ~req.well_formed THEN Err("Invalid response")
    ELSE IF removed.entry = None
    THEN [states |-> removed.states, pc |-> "idle", loc |-> NoLocals,
          ret |-> Response("login_complete", 400, "Invalid authentication session")]
    ELSE [states |-> removed.states, pc |-> "lc_verify",
          loc |-> [state_id |-> req.state_id, stored_state |-> removed.entry],
          ret |-> ret]

LoginCompleteConsume(p) ==
    /\ Free(p)
    /\ \E out \in {login_complete_consume(AUTHENTICATION_STATES, req) :
                     req \in LoginCompleteRequests} :
        /\ AUTHENTICATION_STATES' = out.states
        /\ pc' = [pc EXCEPT ![p] = out.pc]
        /\ loc' = [loc EXCEPT ![p] = out.loc]
        /\ ret' = out.ret
        /\ UNCHANGED <<pw3vars, recovered, users, tokens, CREDENTIAL_STORE, REGISTRATION_STATES,
                       sessions, nextStateId, now>>

\* The fields of the login_complete request read after the lookup, and its session.
LoginCompleteFields == [session : Sessions, response : AuthResponses]

\* login_complete, lines 207-217: the response is verified and the session is
\* marked authenticated.  The AuthenticationResult of the library is dropped:
\* the handler writes nothing to CREDENTIAL_STORE (store) or to the database.
\* (login_complete_verify_skipped: the slip of not verifying at all.)
login_complete_verify_skipped(p, req) ==
    [sessions |-> [sessions EXCEPT ![req.session] = TRUE], store |-> CREDENTIAL_STORE,
     ret |-> Response("login_complete", 303, "/home")]

\* (login_complete_verify_marks_first: the slip of marking the session before
\* the verdict is looked at.)
login_complete_verify_marks_first(p, req) ==
    IF ~complete_authentication(req.response, loc[p].stored_state)
    THEN [sessions |-> [sessions EXCEPT ![req.session] = TRUE], store |-> CREDENTIAL_STORE,
          ret |-> Response("login_complete", 400, "Failed to complete authentication")]
    ELSE [sessions |-> [sessions EXCEPT ![req.session] = TRUE], store |-> CREDENTIAL_STORE,
          ret |-> Response("login_complete", 303, "/home")]

login_complete_verify(p, req) ==
    IF ~complete_authentication(req.response, loc[p].stored_state)
    THEN [sessions |-> sessions, store |-> CREDENTIAL_STORE,
          ret |-> Response("login_complete", 400, "Failed to complete authentication")]
    ELSE [sessions |-> [sessions EXCEPT ![req.session] = TRUE], store |-> CREDENTIAL_STORE,
          ret |-> Response("login_complete", 303, "/home")]

LoginCompleteVerify(p) ==
    /\ pc[p] = "lc_verify"
    /\ \E out \in {login_complete_verify(p, req) : req \in LoginCompleteFields} :
        /\ sessions' = out.sessions
        /\ CREDENTIAL_STORE' = out.store
        /\ pc' = [pc EXCEPT ![p] = "idle"]
        /\ loc' = [loc EXCEPT ![p] = NoLocals]
        /\ ret' = out.ret
        /\ UNCHANGED <<pw3vars, recovered, users, tokens, REGISTRATION_STATES, AUTHENTICATION_STATES,
                       nextStateId, now>>

\* The key/value pairs a session holds: login_complete inserts "authenticated"
\* (lines 213-215) and no handler inserts any other key.
session_entries(ss, session) ==
    IF ss[session] THEN {<<"authenticated", TRUE>>} ELSE {}

\* ------------------------------------------------------- the other handlers
\* logout, lines 221-224.
logout(session) == [sessions EXCEPT ![session] = FALSE]

Logout ==
    \E session \in Sessions :
        /\ sessions' = logout(session)
        /\ ret' = Response("logout", 303, "/")
        /\ UNCHANGED <<pw3vars, recovered, users, tokens, CREDENTIAL_STORE, REGISTRATION_STATES,
                       AUTHENTICATION_STATES, nextStateId, now, pc, loc>>

\* --------------------------------------------------- backend/middlewares.rs
\* SessionUser::from_request_parts, lines 18-27: the extractor in front of the
\* authenticated routes.  It asks only whether the session has a value under
\* "authenticated"; the request goes on (Ok(SessionUser)) or is answered 401.
\* (from_request_parts_for_everyone: the earlier version the note of line 20
\* speaks of, which let every request through.)
from_request_parts_for_everyone(ss, session) ==
    Response("SessionUser", 200, "Ok")

from_request_parts(ss, session) ==
    IF \E kv \in session_entries(ss, session) : kv[1] = "authenticated"
    THEN Response("SessionUser", 200, "Ok")
    ELSE Response("SessionUser", 401, "Unauthorized")

\* A request to a route behind the extractor.
SessionUserRequest ==
    \E session \in Sessions :
        /\ ret' = from_request_parts(sessions, session)
        /\ UNCHANGED <<pw3vars, recovered, users, tokens, CREDENTIAL_STORE, REGISTRATION_STATES,
                       AUTHENTICATION_STATES, sessions, nextStateId, now, pc, loc>>

\* validate_account, lines 227-235.  token_of = "unknown" is a token that
\* token::consume does not know; otherwise the e-mail the token was made for.
validate_account(token_of) ==
    IF token_of = "unknown"
    THEN [users |-> users, tokens |-> tokens,
          ret |-> Response("validate_account", 303, "/register?error=invalid_token")]
    ELSE [users |-> user_verify(users, token_of).users,
          tokens |-> [tokens EXCEPT ![token_of] = @ - 1],
          ret |-> IF user_verify(users, token_of).ok
                  THEN Response("validate_account", 303, "/login?validated=true")
                  ELSE Response("validate_account", 303,
                                "/register?error=validation_failed")]

ValidateAccount(E) ==
    \E token_of \in {e \in E : tokens[e] > 0} \cup {"unknown"} :
        /\ users' = validate_account(token_of).users
        /\ tokens' = validate_account(token_of).tokens
        /\ ret' = validate_account(token_of).ret
        /\ UNCHANGED <<pw3vars, recovered, CREDENTIAL_STORE, REGISTRATION_STATES, AUTHENTICATION_STATES,
                       sessions, nextStateId, now, pc, loc>>

\* recover_account, lines 238-274: a token is generated and mailed for a
\* verified user; the answer is the same page whether or not the e-mail is known.
\* db_ok = FALSE is token::generate returning Err, mail_ok = FALSE is send_mail
\* returning Err.  mail is what became of the recovery mail; it leaves the
\* server and is no part of its state.
recover_account(email_ok, email, db_ok, mail_ok) ==
    IF ~email_ok
    THEN [tokens |-> tokens, mail |-> "none",
          ret |-> Response("recover_account", 400, "Email is required")]
    ELSE IF user_get(email) # None /\ user_get(email).verified
    THEN IF db_ok
         THEN [tokens |-> token_generate(tokens, email, TRUE),
               mail |-> IF mail_ok THEN "sent" ELSE "failed",
               ret |-> Response("recover_account", 200, "recover success")]
         ELSE [tokens |-> tokens, mail |-> "none",
               ret |-> Response("recover_account", 500, "Internal server error.")]
    ELSE [tokens |-> tokens, mail |-> "none",
          ret |-> Response("recover_account", 200, "recover success")]

RecoverAccount(E) ==
    \E out \in {recover_account(email_ok, email, db_ok, mail_ok) :
                  email_ok \in BOOLEAN, email \in E, db_ok \in BOOLEAN,
                  mail_ok \in BOOLEAN} :
        /\ tokens' = out.tokens
        /\ ret' = out.ret
        /\ UNCHANGED <<pw3vars, recovered, users, CREDENTIAL_STORE, REGISTRATION_STATES,
                       AUTHENTICATION_STATES, sessions, nextStateId, now, pc, loc>>

\* reset_account, lines 277-288: the token is consumed and the browser is sent to
\* the registration page in reset mode; the server keeps nothing of it.
reset_account(token_of) ==
    IF token_of = "unknown"
    THEN [tokens |-> tokens, recovered |-> recovered,
          ret |-> Response("reset_account", 200, "/register?error=recovery_failed")]
    ELSE [tokens |-> [tokens EXCEPT ![token_of] = @ - 1],
          recovered |-> recovered \cup {token_of},
          ret |-> Response("reset_account", 200, "/register?reset_mode=true&success=true")]

ResetAccount(E) ==
    \E token_of \in {e \in E : tokens[e] > 0} \cup {"unknown"} :
        /\ tokens' = reset_account(token_of).tokens
        /\ recovered' = reset_account(token_of).recovered
        /\ ret' = reset_account(token_of).ret
        /\ UNCHANGED <<pw3vars, users, CREDENTIAL_STORE, REGISTRATION_STATES,
                       AUTHENTICATION_STATES, sessions, nextStateId, now, pc, loc>>

\* The server process is restarted: every in-memory map is empty again, the
\* requests in flight are gone, the database keeps its rows.
Restart ==
    /\ CREDENTIAL_STORE' = [e \in Emails |-> None]
    /\ REGISTRATION_STATES' = [s \in StateIds |-> None]
    /\ AUTHENTICATION_STATES' = [s \in StateIds |-> None]
    /\ sessions' = [s \in Sessions |-> FALSE]
    /\ pc' = [p \in Procs |-> "idle"]
    /\ loc' = [p \in Procs |-> NoLocals]
    /\ ret' = Response("none", 0, "")
    /\ UNCHANGED <<pw3vars, recovered, users, tokens, nextStateId, now>>

\* Uuid::new_v4 draws its value at random (lines 62 and 168): nothing in the
\* code keeps the next value from being one that was returned before.
NewV4Repeats ==
    /\ nextStateId' \in StateIds \ {nextStateId}
    /\ UNCHANGED <<pw3vars, recovered, users, tokens, CREDENTIAL_STORE, REGISTRATION_STATES,
                   AUTHENTICATION_STATES, sessions, now, pc, loc, ret>>

\* Time passes.
Tick ==
    /\ now < MaxTime
    /\ now' = now + 1
    /\ UNCHANGED <<pw3vars, recovered, users, tokens, CREDENTIAL_STORE, REGISTRATION_STATES,
                   AUTHENTICATION_STATES, sessions, nextStateId, pc, loc, ret>>

\* ------------------------------------------------------------ specifications
\* P: the request slots, i.e. how many complete-calls can be in flight at once.
RegisterComplete(P, E) ==
    \E p \in P :
        \/ RegisterCompleteConsume(p)
        \/ RegisterCompleteVerify(p, E)
        \/ RegisterCompleteRead(p)
        \/ RegisterCompletePersist(p)

LoginComplete(P) ==
    \E p \in P :
        \/ LoginCompleteConsume(p)
        \/ LoginCompleteVerify(p)

\* One identity, two requests in flight: every handler.
Next ==
    \/ RegisterBegin({"a@x"})
    \/ RegisterComplete(Procs, {"a@x"})
    \/ LoginBegin({"a@x"})
    \/ LoginComplete(Procs)
    \/ Logout
    \/ ValidateAccount({"a@x"})
    \/ Restart

Spec == Init /\ [][Next]_vars

\* Two identities, one request in flight: the registration ceremony.
NextIdentities ==
    \/ RegisterBegin(Emails)
    \/ RegisterComplete({1}, Emails)

SpecIdentities == Init /\ [][NextIdentities]_vars

\* One identity, one request in flight, and the clock: the registration ceremony.
NextTime ==
    \/ RegisterBegin({"a@x"})
    \/ RegisterComplete({1}, {"a@x"})
    \/ Tick

SpecTime == Init /\ [][NextTime]_vars

\* An enrolled identity, one request in flight: login, re-registration in reset
\* mode, and the recovery handlers.
NextEnrolled ==
    \/ RegisterBegin({"a@x"})
    \/ RegisterComplete({1}, {"a@x"})
    \/ LoginBegin({"a@x"})
    \/ LoginComplete({1})
    \/ RecoverAccount({"a@x"})
    \/ ResetAccount({"a@x"})

SpecEnrolled == InitEnrolled /\ [][NextEnrolled]_vars

\* One identity, one request in flight, and a Uuid::new_v4 that may repeat: the
\* registration ceremony.
NextCollision ==
    \/ RegisterBegin({"a@x"})
    \/ RegisterComplete({1}, {"a@x"})
    \/ NewV4Repeats

SpecCollision == Init /\ [][NextCollision]_vars

\* An enrolled identity and a new one, two requests in flight: the registration
\* ceremony.
NextConcurrent ==
    \/ RegisterBegin(Emails)
    \/ RegisterComplete(Procs, Emails)

SpecConcurrent == InitEnrolled /\ [][NextConcurrent]_vars

\* An enrolled identity, one request in flight: login, logout, and requests to
\* the routes behind the session extractor.
NextSession ==
    \/ LoginBegin({"a@x"})
    \/ LoginComplete({1})
    \/ Logout
    \/ SessionUserRequest

SpecSession == InitEnrolled /\ [][NextSession]_vars

\* Clients that begin ceremonies and never complete them, and the clock, which
\* never stops before its last instant.
NextAbandoned ==
    \/ RegisterBegin(Emails)
    \/ LoginBegin(Emails)
    \/ Tick

SpecAbandoned == InitEnrolled /\ [][NextAbandoned]_vars /\ WF_vars(Tick)

\* ================================================================ pw3
\* The pw2 handlers at rest: what a pw3 specification leaves alone.
Pw2Idle ==
    /\ users = [e \in Emails |-> None]
    /\ tokens = [e \in Emails |-> 0]
    /\ CREDENTIAL_STORE = [e \in Emails |-> None]
    /\ REGISTRATION_STATES = [s \in StateIds |-> None]
    /\ AUTHENTICATION_STATES = [s \in StateIds |-> None]
    /\ sessions = [s \in Sessions |-> FALSE]
    /\ nextStateId = 1
    /\ now = 0
    /\ pc = [p \in Procs |-> "idle"]
    /\ loc = [p \in Procs |-> NoLocals]
    /\ ret = Response("none", 0, "")
    /\ recovered = {}

\* ------------------------------------------------------- pw3 authorization.rs
\* Number of users (UserID values) of a run.
MaxUsers == 3

UserIDs == 1..MaxUsers
Roles == {"Admin", "Doctor", "Patient"}

\* models::MedicalFolder, of which the policy can read the doctors; None is a
\* user without a folder.
MedicalFolders == {None} \cup {[doctors |-> d] : d \in SUBSET UserIDs}

\* models::UserData and models::MedicalReport, the fields a policy can tell apart.
UserDatas == [id : UserIDs, role : Roles, medical_folder : MedicalFolders]
MedicalReports == [author : UserIDs, patient : UserIDs]

\* What access_control/policy.csv may grant on "read-report" to a subject that
\* is neither an admin nor the author of the report.  The request carries the
\* subject and the report only, so a rule can look at the subject's role or
\* compare the subject's id with the report's patient, nothing else.
ReadReportRules == {"Doctor", "Patient", "IsPatient"}
Enforcers == [read_report_rules : SUBSET ReadReportRules]

\* casbin::Enforcer::enforce((sub, obj, act)) with the repository's model.conf
\* and policy.csv: Ok(r).
casbin_enforce(enforcer, sub, obj, act) ==
    [ok |-> TRUE,
     r |-> CASE act = "read-data" ->
                  \/ sub.role = "Admin"
                  \/ sub.id = obj.id
                  \/ /\ sub.role = "Doctor"
                     /\ obj.medical_folder # None
                     /\ sub.id \in obj.medical_folder.doctors
             [] act = "read-report" ->
                  \/ sub.role = "Admin"
                  \/ sub.id = obj.author
                  \/ sub.role \in enforcer.read_report_rules
                  \/ "IsPatient" \in enforcer.read_report_rules /\ sub.id = obj.patient]

\* Context::enforce, lines 47-71: a casbin error and a refusal are both
\* AccessDenied.
enforce(enforcer, subject, object, action) ==
    LET res == casbin_enforce(enforcer, subject, object, action)
    IN IF ~res.ok THEN "AccessDenied"
       ELSE IF res.r THEN "Ok" ELSE "AccessDenied"

\* Context::read_data, lines 73-75.
\* (read_data_of_subject: the slip of passing the subject as the object.)
read_data_of_subject(enforcer, subject, patient) ==
    enforce(enforcer, subject, subject, "read-data")

read_data(enforcer, subject, patient) ==
    enforce(enforcer, subject, patient, "read-data")

\* Context::read_report, lines 92-95: the report is the whole object.
read_report(enforcer, subject, report) ==
    enforce(enforcer, subject, report, "read-report")

\* A subject, a target user and a report about the target, as the tests build
\* them: one UserID is one user.
AuthorizationCases ==
    {c \in [enforcer : Enforcers, subject : UserDatas, target : UserDatas,
            report : MedicalReports] :
        /\ c.subject.id = c.target.id => c.subject = c.target
        /\ c.subject.medical_folder \in {None, [doctors |-> {}]}
        /\ c.report.patient = c.target.id}

InitAuthorization ==
    /\ args \in AuthorizationCases
    /\ result = None
    /\ EMPTY_HASH = None
    /\ Pw2Idle

ReadData ==
    /\ result = None
    /\ result' = [op |-> "read_data",
                  ret |-> read_data(args.enforcer, args.subject, args.target)]
    /\ UNCHANGED <<args, EMPTY_HASH, pw2vars>>

ReadReport ==
    /\ result = None
    /\ result' = [op |-> "read_report",
                  ret |-> read_report(args.enforcer, args.subject, args.report)]
    /\ UNCHANGED <<args, EMPTY_HASH, pw2vars>>

NextAuthorization ==
    \/ ReadData
    \/ ReadReport

SpecAuthorization == InitAuthorization /\ [][NextAuthorization]_vars

\* ---------------------------------------------------- pw3 password_utils.rs
\* Number of values SaltString::generate(&mut OsRng) can take in a run.
MaxSalts == 2

Salts == 1..MaxSalts
Passwords == {"", "hunter2", "correct horse"}

\* argon2: Argon2::hash_password, the PHC string of a password under a salt.
\* The digest stands for Argon2id(password, salt): equal exactly when both are.
hash_password(password, salt) ==
    [salt |-> salt, digest |-> <<password, salt>>]

\* argon2: Argon2::verify_password recomputes the digest under the salt of the
\* PHC string and compares.
verify_password(password, phc) ==
    hash_password(password, phc.salt).digest = phc.digest

\* hash, lines 43-53: the salt is drawn inside the function.
hash(password, salt) == hash_password(password, salt)

\* EMPTY_HASH (line 15) is a LazyLock: the first use computes hash("").
force_EMPTY_HASH(current, salt) ==
    IF current = None THEN hash("", salt) ELSE current

\* verify, lines 60-75: the verdict, and the library calls made on the way.
\* empty_hash is EMPTY_HASH once forced; initialised tells whether this call
\* forced it.
\* (verify_accepting: the slip of dropping the verdict of verify_password.)
verify_accepting(password, maybe_hash, empty_hash, initialised) ==
    IF maybe_hash # None
    THEN [ret |-> TRUE,
          calls |-> <<[fn |-> "verify_password", password |-> password,
                       hash |-> maybe_hash]>>]
    ELSE [ret |-> FALSE,
          calls |-> (IF initialised
                     THEN <<[fn |-> "hash_password", password |-> "", hash |-> empty_hash]>>
                     ELSE <<>>)
                    \o <<[fn |-> "verify_password", password |-> password,
                          hash |-> empty_hash]>>]

\* (verify_returning_early: the slip of returning false at once when there is
\* no hash.)
verify_returning_early(password, maybe_hash, empty_hash, initialised) ==
    IF maybe_hash # None
    THEN [ret |-> verify_password(password, maybe_hash),
          calls |-> <<[fn |-> "verify_password", password |-> password,
                       hash |-> maybe_hash]>>]
    ELSE [ret |-> FALSE, calls |-> <<>>]

verify(password, maybe_hash, empty_hash, initialised) ==
    IF maybe_hash # None
    THEN [ret |-> verify_password(password, maybe_hash),
          calls |-> <<[fn |-> "verify_password", password |-> password,
                       hash |-> maybe_hash]>>]
    ELSE [ret |-> FALSE,
          calls |-> (IF initialised
                     THEN <<[fn |-> "hash_password", password |-> "", hash |-> empty_hash]>>
                     ELSE <<>>)
                    \o <<[fn |-> "verify_password", password |-> password,
                          hash |-> empty_hash]>>]

\* A password that is hashed and a password that is tried against the hash.
InitPassword ==
    /\ args \in [password : Passwords, attempt : Passwords]
    /\ result = None
    /\ EMPTY_HASH = None
    /\ Pw2Idle

\* hash(password): the stored hash of the user.
Hash ==
    /\ result = None
    /\ \E salt \in Salts :
          result' = [op |-> "hash", hash |-> hash(args.password, salt)]
    /\ UNCHANGED <<args, EMPTY_HASH, pw2vars>>

\* verify(attempt, Some(&hash)): the user exists.
VerifySome ==
    /\ result # None
    /\ LET out == verify(args.attempt, result.hash, EMPTY_HASH, FALSE)
       IN result' = [op |-> "verify", hash |-> result.hash, maybe_hash |-> result.hash,
                     ret |-> out.ret, calls |-> out.calls]
    /\ UNCHANGED <<args, EMPTY_HASH, pw2vars>>

\* verify(attempt, None): the user does not exist.
VerifyNone ==
    /\ result # None
    /\ \E salt \in Salts :
          LET empty == force_EMPTY_HASH(EMPTY_HASH, salt)
              out == verify(args.attempt, None, empty, EMPTY_HASH = None)
          IN /\ EMPTY_HASH' = empty
             /\ result' = [op |-> "verify", hash |-> result.hash, maybe_hash |-> None,
                           ret |-> out.ret, calls |-> out.calls]
    /\ UNCHANGED <<args, pw2vars>>

NextPassword ==
    \/ Hash
    \/ VerifySome
    \/ VerifyNone

SpecPassword == InitPassword /\ [][NextPassword]_vars

\* -------------------------------------------------- pw3 input_validation.rs
\* A string is the sequence of its characters.
\* Longest string of the exhaustive part of the username inputs.
MaxLen == 3

\* username.len() > 32, line 94.
MaxUsernameLen == 32

Digits == {"0", "1", "2", "3", "4", "5", "6", "7", "8", "9"}
DigitValue(c) ==
    CASE c = "0" -> 0 [] c = "1" -> 1 [] c = "2" -> 2 [] c = "3" -> 3 [] c = "4" -> 4
      [] c = "5" -> 5 [] c = "6" -> 6 [] c = "7" -> 7 [] c = "8" -> 8 [] c = "9" -> 9

\* The characters of the inputs: [a-zA-Z0-9], the three the regex allows in
\* the middle, and others.
AlnumChars == Digits \cup {"a", "Z"}
MiddleChars == AlnumChars \cup {".", "_", "-"}
UsernameChars == {"a", "Z", "7", ".", "_", "-", "@", " "}

\* regex ^[a-zA-Z0-9][a-zA-Z0-9._-]+[a-zA-Z0-9]$, line 102.
username_regex_is_match(username) ==
    /\ Len(username) >= 3
    /\ username[1] \in AlnumChars
    /\ \A i \in 2..(Len(username) - 1) : username[i] \in MiddleChars
    /\ username[Len(username)] \in AlnumChars

\* username_validation, lines 92-108: TRUE is Ok(()).
\* (username_validation_off_by_one: the slip of writing >= for >.)
username_validation_off_by_one(username) ==
    IF Len(username) >= MaxUsernameLen THEN FALSE
    ELSE username_regex_is_match(username)

username_validation(username) ==
    IF Len(username) > MaxUsernameLen THEN FALSE
    ELSE username_regex_is_match(username)

\* Username::try_from, lines 68-84.
Username_try_from(username) ==
    IF username_validation(username)
    THEN [ok |-> TRUE, value |-> username]
    ELSE [ok |-> FALSE, value |-> <<>>]

\* regex ^756\.?\d{4}\.?\d{4}\.?\d{2}$, line 167: each of the three dots may
\* be there or not.
AvsTemplate(d1, d2, d3) ==
    <<"7", "5", "6">> \o (IF d1 THEN <<".">> ELSE <<>>)
        \o <<"d", "d", "d", "d">> \o (IF d2 THEN <<".">> ELSE <<>>)
        \o <<"d", "d", "d", "d">> \o (IF d3 THEN <<".">> ELSE <<>>)
        \o <<"d", "d">>

avs_regex_is_match(avs_number) ==
    \E d1, d2, d3 \in BOOLEAN :
        LET t == AvsTemplate(d1, d2, d3)
        IN /\ Len(avs_number) = Len(t)
           /\ \A i \in 1..Len(t) :
                 IF t[i] = "d" THEN avs_number[i] \in Digits ELSE avs_number[i] = t[i]

\* str::replace('.', ""), line 173.
replace_dots(str) == SelectSeq(str, LAMBDA c : c # ".")

\* gtin_validate::gtin13::check: thirteen digits whose last is the GTIN check
\* digit of the first twelve (weights 1 and 3 in turn).
gtin13_check(code) ==
    /\ Len(code) = 13
    /\ \A i \in 1..13 : code[i] \in Digits
    /\ LET Weighted(i) == DigitValue(code[i]) * (IF i % 2 = 1 THEN 1 ELSE 3)
           sum == Weighted(1) + Weighted(2) + Weighted(3) + Weighted(4) + Weighted(5)
                  + Weighted(6) + Weighted(7) + Weighted(8) + Weighted(9)
                  + Weighted(10) + Weighted(11) + Weighted(12)
       IN DigitValue(code[13]) = (10 - (sum % 10)) % 10

\* validate_avs_number, lines 166-174.
validate_avs_number(avs_number) ==
    IF ~avs_regex_is_match(avs_number) THEN FALSE
    ELSE gtin13_check(replace_dots(avs_number))

\* AVSNumber::try_from, lines 142-164: the value is kept as it was given.
AVSNumber_try_from(value) ==
    IF validate_avs_number(value)
    THEN [ok |-> TRUE, value |-> value]
    ELSE [ok |-> FALSE, value |-> <<>>]

\* impl Display for AVSNumber, lines 125-140.
AVSNumber_fmt(self0) ==
    IF Len(self0) = 13
    THEN SubSeq(self0, 1, 3) \o <<".">> \o SubSeq(self0, 4, 7) \o <<".">>
            \o SubSeq(self0, 8, 11) \o <<".">> \o SubSeq(self0, 12, 13)
    ELSE self0

\* The strings of at most n characters over the set S.
StringsUpTo(S, n) == UNION {[1..k -> S] : k \in 0..n}

\* The username inputs: every string of at most MaxLen characters, and the
\* strings around the length limit, a first and a last character around a run
\* of one letter.
UsernameInputs ==
    StringsUpTo(UsernameChars, MaxLen)
    \cup {<<f>> \o [i \in 1..n |-> "a"] \o <<l>> :
            f \in UsernameChars, l \in UsernameChars,
            n \in (MaxUsernameLen - 3)..MaxUsernameLen}

\* The AVS inputs: 756, nine digits, a check digit, with each of the three
\* dots there or not; and some strings the regex refuses.
AvsInputs ==
    {LET d == <<"7", "5", "6">> \o body \o <<c>>
     IN SubSeq(d, 1, 3) \o (IF dots[1] THEN <<".">> ELSE <<>>)
           \o SubSeq(d, 4, 7) \o (IF dots[2] THEN <<".">> ELSE <<>>)
           \o SubSeq(d, 8, 11) \o (IF dots[3] THEN <<".">> ELSE <<>>)
           \o SubSeq(d, 12, 13) :
        body \in [1..9 -> {"0", "9"}], c \in Digits, dots \in [1..3 -> BOOLEAN]}
    \cup {<<>>,
          <<"7", "5", "6", ".", "1", "2", "3", "4", ".", "5", "6", "7", "8">>,
          <<"a", "b", "c", ".", "1", "2", "3", "4", ".", "5", "6", "7", "8", ".", "9", "0">>,
          <<"7", "5", "6", ".", ".", "0", "0", "0", "0", "0", "0", "0", "0", "0", "2">>,
          <<"7", "5", "6", "0", "0", "0", "0", "0", "0", "0", "0", "0", "2", ".">>}

InitValidation ==
    /\ args \in [fn : {"Username"}, input : UsernameInputs]
               \cup [fn : {"AVSNumber"}, input : AvsInputs]
    /\ result = None
    /\ EMPTY_HASH = None
    /\ Pw2Idle

UsernameTryFrom ==
    /\ result = None
    /\ args.fn = "Username"
    /\ result' = [op |-> "Username::try_from", out |-> Username_try_from(args.input)]
    /\ UNCHANGED <<args, EMPTY_HASH, pw2vars>>

AVSNumberTryFrom ==
    /\ result = None
    /\ args.fn = "AVSNumber"
    /\ result' = [op |-> "AVSNumber::try_from", out |-> AVSNumber_try_from(args.input)]
    /\ UNCHANGED <<args, EMPTY_HASH, pw2vars>>

\* to_string() of an AVSNumber that try_from returned.
AVSNumberDisplay ==
    /\ result # None
    /\ result.op = "AVSNumber::try_from"
    /\ result.out.ok
    /\ result' = [op |-> "AVSNumber::to_string", out |-> result.out,
                  display |-> AVSNumber_fmt(result.out.value)]
    /\ UNCHANGED <<args, EMPTY_HASH, pw2vars>>

NextValidation ==
    \/ UsernameTryFrom
    \/ AVSNumberTryFrom
    \/ AVSNumberDisplay

SpecValidation == InitValidation /\ [][NextValidation]_vars

\* ------------------------------------------------------ pw2 utils/input.rs
\* TextualContent::try_new_short_form_content (line 131) and
\* try_new_long_form_content (line 118): the max_length they pass.
MaxShortFormLen == 250
MaxLongFormLen == 2000

\* The characters of the content inputs: a letter, a two-byte letter, the
\* space, the tab (white space and a control character), the escape (a control
\* character), and the two angle brackets.
ContentChars == {"a", "e_acute", " ", "\t", "ESC", "<", ">"}
WhiteSpaceChars == {" ", "\t"}
ControlChars == {"\t", "ESC"}

\* str::len: the length in bytes of the UTF-8 encoding.
str_len(str) == Len(str) + Cardinality({i \in 1..Len(str) : str[i] = "e_acute"})

\* str::trim: the string without its leading and trailing white space.
trim(str) ==
    LET kept == {i \in 1..Len(str) : str[i] \notin WhiteSpaceChars}
    IN IF kept = {} THEN <<>>
       ELSE LET first == CHOOSE i \in kept : \A j \in kept : i <= j
                last == CHOOSE i \in kept : \A j \in kept : j <= i
            IN SubSeq(str, first, last)

\* validator::ValidateNonControlCharacter: no char of the string is a control
\* character.
validate_non_control_character(str) ==
    \A i \in 1..Len(str) : str[i] \notin ControlChars

\* ammonia::is_html: the HTML tokenizer emits something else than characters;
\* over these characters, a tag: "<", a letter, and a ">" further on.
is_html(str) ==
    \E i \in 1..(Len(str) - 2) :
        /\ str[i] = "<"
        /\ str[i + 1] = "a"
        /\ \E j \in (i + 2)..Len(str) : str[j] = ">"

\* TextualContent::try_new, lines 134-146: Some(trimmed) or None.
\* (try_new_untrimmed: the slip of keeping the content as it was given.)
try_new_untrimmed(content, max_length) ==
    LET trimmed == trim(content)
    IN IF \/ trimmed = <<>>
          \/ str_len(trimmed) > max_length
          \/ ~validate_non_control_character(trimmed)
          \/ is_html(trimmed)
       THEN None
       ELSE [some |-> content]

try_new(content, max_length) ==
    LET trimmed == trim(content)
    IN IF \/ trimmed = <<>>
          \/ str_len(trimmed) > max_length
          \/ ~validate_non_control_character(trimmed)
          \/ is_html(trimmed)
       THEN None
       ELSE [some |-> trimmed]

try_new_long_form_content(content) == try_new(content, MaxLongFormLen)

try_new_short_form_content(content) == try_new(content, MaxShortFormLen)

\* The content inputs: every string of at most MaxLen characters, and the
\* strings around the two length limits: a run of one letter (of one or of two
\* bytes) between a first and a last character.
ContentInputs ==
    StringsUpTo(ContentChars, MaxLen)
    \cup {<<f>> \o [i \in 1..n |-> "a"] \o <<l>> :
            f \in {"a", " ", "<"}, l \in {"a", "\t", "ESC"},
            n \in (MaxShortFormLen - 3)..MaxShortFormLen
                  \cup (MaxLongFormLen - 3)..MaxLongFormLen}
    \cup {[i \in 1..n |-> "e_acute"] \o <<l>> :
            l \in {"a", " "},
            n \in {MaxShortFormLen \div 2 - 1, MaxShortFormLen \div 2,
                   MaxLongFormLen \div 2 - 1, MaxLongFormLen \div 2}}

InitInput ==
    /\ args \in [fn : {"TextualContent"}, input : ContentInputs]
    /\ result = None
    /\ EMPTY_HASH = None
    /\ Pw2Idle

TryNewShortFormContent ==
    /\ result = None
    /\ result' = [op |-> "try_new_short_form_content",
                  out |-> try_new_short_form_content(args.input)]
    /\ UNCHANGED <<args, EMPTY_HASH, pw2vars>>

TryNewLongFormContent ==
    /\ result = None
    /\ result' = [op |-> "try_new_long_form_content",
                  out |-> try_new_long_form_content(args.input)]
    /\ UNCHANGED <<args, EMPTY_HASH, pw2vars>>

NextInput ==
    \/ TryNewShortFormContent
    \/ TryNewLongFormContent

SpecInput == InitInput /\ [][NextInput]_vars

\* ==================================================================== claims
InFlightRegister(p) == pc[p] \in {"rc_verify", "rc_read", "rc_persist"}
InFlightLogin(p) == pc[p] = "lc_verify"

UnknownRegistration == Response("register_complete", 400, "Invalid registration session")
UnknownAuthentication == Response("login_complete", 400, "Invalid authentication session")

\* The complete requests all of whose fields parse.
ValidRegisterCompleteRequests ==
    {req \in RegisterCompleteRequests :
        req.email_ok /\ req.first_name_ok /\ req.last_name_ok /\ req.state_id # -1}

ValidLoginCompleteRequests ==
    {req \in LoginCompleteRequests :
        req.has_response /\ req.well_formed /\ req.state_id # -1}

\* C1: of two complete-calls that carry the same live state_id and parse, in
\* whichever order the write lock serves them, the first obtains the stored
\* state and the second is answered "Invalid ... session"; while a call holds a
\* stored state, no other call in flight holds the state of the same id and a
\* new call with that id is answered "Invalid ... session".
C1_ExactlyOneCallObtainsState ==
    /\ \A r1, r2 \in ValidRegisterCompleteRequests :
          (r1.state_id = r2.state_id /\ r1.state_id \in StateIds
              /\ REGISTRATION_STATES[r1.state_id] # None) =>
            LET first == register_complete_consume(REGISTRATION_STATES, r1)
                second == register_complete_consume(first.states, r2)
            IN /\ first.pc = "rc_verify"
               /\ first.loc.stored_state = REGISTRATION_STATES[r1.state_id]
               /\ second.pc = "idle" /\ second.ret = UnknownRegistration
    /\ \A r1, r2 \in ValidLoginCompleteRequests :
          (r1.state_id = r2.state_id /\ r1.state_id \in StateIds
              /\ AUTHENTICATION_STATES[r1.state_id] # None) =>
            LET first == login_complete_consume(AUTHENTICATION_STATES, r1)
                second == login_complete_consume(first.states, r2)
            IN /\ first.pc = "lc_verify"
               /\ first.loc.stored_state = AUTHENTICATION_STATES[r1.state_id]
               /\ second.pc = "idle" /\ second.ret = UnknownAuthentication
    /\ \A p \in Procs :
          /\ InFlightRegister(p) =>
               /\ \A q \in Procs \ {p} :
                     InFlightRegister(q) => loc[q].state_id # loc[p].state_id
               /\ \A req \in ValidRegisterCompleteRequests :
                     req.state_id = loc[p].state_id =>
                        register_complete_consume(REGISTRATION_STATES, req).ret
                            = UnknownRegistration
          /\ InFlightLogin(p) =>
               /\ \A q \in Procs \ {p} :
                     InFlightLogin(q) => loc[q].state_id # loc[p].state_id
               /\ \A req \in ValidLoginCompleteRequests :
                     req.state_id = loc[p].state_id =>
                        login_complete_consume(AUTHENTICATION_STATES, req).ret
                            = UnknownAuthentication

\* C1 witness: an authentication complete-call has obtained the stored state of
\* its id and is in flight, a second request slot is free, and a complete-call
\* arriving now with the same id is answered "Invalid authentication session".
C1_Witness ==
    \E p \in Procs :
        /\ InFlightLogin(p)
        /\ \E q \in Procs : Free(q)
        /\ \E req \in ValidLoginCompleteRequests :
              /\ req.state_id = loc[p].state_id
              /\ login_complete_consume(AUTHENTICATION_STATES, req).ret
                    = UnknownAuthentication

\* C2 (as claimed): whatever the first complete-call with a state_id was and
\* however it ended, a second complete-call with the same state_id (one that
\* parses) is answered "Invalid ... session".
C2_SecondCallAlwaysUnknown ==
    /\ \A r1 \in RegisterCompleteRequests, r2 \in ValidRegisterCompleteRequests :
          r1.state_id = r2.state_id =>
            LET first == register_complete_consume(REGISTRATION_STATES, r1)
            IN register_complete_consume(first.states, r2).ret = UnknownRegistration
    /\ \A r1 \in LoginCompleteRequests, r2 \in ValidLoginCompleteRequests :
          r1.state_id = r2.state_id =>
            LET first == login_complete_consume(AUTHENTICATION_STATES, r1)
            IN login_complete_consume(first.states, r2).ret = UnknownAuthentication

\* C3 (as claimed): a complete-call that references a live state_id and returns
\* an error has removed the entry of that state_id.  (A call that passed the
\* lookup removed it there, so only the returns of the lookup step can leave it.)
C3_FailedCompleteRemovesEntry ==
    /\ \A req \in RegisterCompleteRequests :
          (req.state_id \in StateIds /\ REGISTRATION_STATES[req.state_id] # None) =>
            LET out == register_complete_consume(REGISTRATION_STATES, req)
            IN out.pc = "idle" => out.states[req.state_id] = None
    /\ \A req \in LoginCompleteRequests :
          (req.state_id \in StateIds /\ AUTHENTICATION_STATES[req.state_id] # None) =>
            LET out == login_complete_consume(AUTHENTICATION_STATES, req)
            IN out.pc = "idle" => out.states[req.state_id] = None
    /\ \A p \in Procs :
          /\ InFlightRegister(p) => REGISTRATION_STATES[loc[p].state_id] = None
          /\ InFlightLogin(p) => AUTHENTICATION_STATES[loc[p].state_id] = None

\* C4 (as claimed): a register_complete that has stored a passkey stored it
\* under the identity its consumed ceremony state was begun for.
C4_CredentialStoredUnderCeremonyIdentity ==
    \A p \in Procs :
        pc[p] \in {"rc_read", "rc_persist"} =>
            /\ loc[p].email = loc[p].stored_state.user_name
            /\ CREDENTIAL_STORE[loc[p].stored_state.user_name] # None

\* The timeout of the entry has elapsed since its begin-call.
Expired(entry) == now - entry.created_at > CeremonyTimeout

\* C5 (as claimed): a complete-call (one that parses) on an entry whose timeout
\* has elapsed is answered "Invalid ... session" and does not go on to verify.
C5_ExpiredEntryIsAbsent ==
    /\ \A req \in ValidRegisterCompleteRequests :
          (req.state_id \in StateIds /\ REGISTRATION_STATES[req.state_id] # None
              /\ Expired(REGISTRATION_STATES[req.state_id])) =>
            LET out == register_complete_consume(REGISTRATION_STATES, req)
            IN out.pc = "idle" /\ out.ret = UnknownRegistration
    /\ \A req \in ValidLoginCompleteRequests :
          (req.state_id \in StateIds /\ AUTHENTICATION_STATES[req.state_id] # None
              /\ Expired(AUTHENTICATION_STATES[req.state_id])) =>
            LET out == login_complete_consume(AUTHENTICATION_STATES, req)
            IN out.pc = "idle" /\ out.ret = UnknownAuthentication

LoginSucceeded == Response("login_complete", 303, "/home")
LoginFailed == Response("login_complete", 400, "Failed to complete authentication")

\* C6 (as claimed): when login_complete succeeds on a response that reports a
\* counter greater than the stored counter of the identity's enrolled passkey,
\* that passkey's stored counter is the reported one when the call returns.
C6_CounterUpdatedOnSuccess ==
    \A p \in Procs :
        InFlightLogin(p) =>
            \A req \in LoginCompleteFields :
                LET out == login_complete_verify(p, req)
                    e == loc[p].stored_state.user_name
                IN (/\ out.ret = LoginSucceeded
                    /\ CREDENTIAL_STORE[e] # None
                    /\ CREDENTIAL_STORE[e].cred_id = req.response.cred_id
                    /\ req.response.counter > CREDENTIAL_STORE[e].counter)
                   => out.store[e].counter = req.response.counter

\* C7: a login_complete whose response is for an allowed passkey of the ceremony
\* (the enrolled passkey as login_begin copied it, counter N) and reports a
\* non-zero counter <= N returns "Failed to complete authentication" and leaves
\* every session as it was.
C7_CounterRegressionRejected ==
    \A p \in Procs :
        InFlightLogin(p) =>
            \A req \in LoginCompleteFields :
                (\E pk \in loc[p].stored_state.allowed :
                    /\ pk.cred_id = req.response.cred_id
                    /\ req.response.counter # 0
                    /\ req.response.counter <= pk.counter)
                => /\ login_complete_verify(p, req).ret = LoginFailed
                   /\ login_complete_verify(p, req).sessions = sessions

\* C7 witness: a login ceremony on the enrolled passkey, whose stored counter is
\* N >= 1, is at verification, and a response that is fine but for its counter
\* N is rejected.
C7_Witness ==
    \E p \in Procs :
        /\ InFlightLogin(p)
        /\ \E req \in LoginCompleteFields :
            LET st == loc[p].stored_state
                enrolled == CREDENTIAL_STORE[st.user_name]
            IN /\ enrolled # None
               /\ enrolled \in st.allowed
               /\ enrolled.counter >= 1
               /\ req.response = [origin |-> RpOrigin, challenge |-> st.challenge,
                                  cred_id |-> enrolled.cred_id,
                                  counter |-> enrolled.counter,
                                  sig_ok |-> TRUE, user_present |-> TRUE]
               /\ login_complete_verify(p, req).ret = LoginFailed

\* C8, state part: a login_complete at verification has consumed a live
\* authentication state; when its response does not verify, every session is as
\* it was and the call fails.
C8_FailedLoginLeavesSession ==
    \A p \in Procs :
        InFlightLogin(p) =>
            /\ loc[p].stored_state # None
            /\ AUTHENTICATION_STATES[loc[p].state_id] = None
            /\ \A req \in LoginCompleteFields :
                  ~finish_passkey_authentication(req.response, loc[p].stored_state)
                  => /\ login_complete_verify(p, req).sessions = sessions
                     /\ login_complete_verify(p, req).ret = LoginFailed

\* C8, step part: a session gains the authenticated attribute only in the
\* verification step of a login_complete that returns the redirect to /home on a
\* response that verifies against the state it consumed.
C8_SessionMarkedOnlyByLogin ==
    \A s \in Sessions :
        (~sessions[s] /\ sessions'[s]) =>
            \E p \in Procs :
                /\ InFlightLogin(p)
                /\ pc'[p] = "idle"
                /\ ret' = LoginSucceeded
                /\ \E req \in LoginCompleteFields :
                      /\ req.session = s
                      /\ finish_passkey_authentication(req.response, loc[p].stored_state)

\* C8: a session is authenticated only by a login_complete that consumed a live
\* authentication state and whose response verified; no other handler marks a
\* session, and a failed login_complete leaves the sessions unchanged.
C8_AuthenticatedOnlyByVerifiedLogin ==
    [](C8_FailedLoginLeavesSession) /\ [][C8_SessionMarkedOnlyByLogin]_vars

\* C8 witness: a session is authenticated and the last call to return was a
\* successful login_complete.
C8_Witness ==
    \E s \in Sessions : sessions[s] /\ ret = LoginSucceeded

\* C9 (as claimed): login_begin for an identity that has no stored passkey
\* (none in CREDENTIAL_STORE, none in the database) is rejected: no options, no
\* new entry in AUTHENTICATION_STATES.
C9_NoCredentialNoChallenge ==
    \A e \in Emails :
        (CREDENTIAL_STORE[e] = None /\ user_get_passkey(e) = None) =>
            LET out == login_begin(TRUE, e)
            IN /\ out.ret.status # 200
               /\ out.issued = 0
               /\ out.states = AUTHENTICATION_STATES

C11_AuthenticatedIdentityEnrolledVerified ==
    /\ \A id \in StateIds :
          AUTHENTICATION_STATES[id] # None =>
            /\ users[AUTHENTICATION_STATES[id].user_name] # None
            /\ users[AUTHENTICATION_STATES[id].user_name].verified
    /\ \A p \in Procs :
          InFlightLogin(p) =>
            LET e == loc[p].stored_state.user_name
            IN \A req \in LoginCompleteFields :
                  login_complete_verify(p, req).ret = LoginSucceeded =>
                    /\ users[e] # None
                    /\ users[e].verified
                    /\ CREDENTIAL_STORE[e] # None
                    /\ \E pk \in loc[p].stored_state.allowed :
                          pk.cred_id = req.response.cred_id

\* C11 witness: a login_complete is at verification for a verified identity and
\* some response makes it succeed.
C11_Witness ==
    \E p \in Procs :
        /\ InFlightLogin(p)
        /\ users[loc[p].stored_state.user_name].verified
        /\ \E req \in LoginCompleteFields :
              login_complete_verify(p, req).ret = LoginSucceeded

\* C12 (as claimed): a login_complete whose response is for a passkey that was
\* allowed when login_begin ran, while a re-registration has since put another
\* passkey in CREDENTIAL_STORE and in the user record, is answered "Failed to
\* complete authentication".
C12_StaleCredentialRejected ==
    \A p \in Procs :
        InFlightLogin(p) =>
            LET st == loc[p].stored_state
                enrolled == CREDENTIAL_STORE[st.user_name]
            IN \A req \in LoginCompleteFields :
                  (/\ \E pk \in st.allowed : pk.cred_id = req.response.cred_id
                   /\ enrolled # None
                   /\ enrolled.cred_id # req.response.cred_id
                   /\ user_get_passkey(st.user_name) = enrolled)
                  => login_complete_verify(p, req).ret = LoginFailed

\* C13 (as claimed): when register_complete replaces the passkey persisted for an
\* identity that already had one, reset_account has consumed a token of that
\* identity beforehand.
C13_ResetOnlyWhenAuthorized ==
    \A p \in Procs :
        pc[p] = "rc_persist" =>
            \A db \in DbResults :
                LET e == loc[p].email
                    out == register_complete_persist(p, db)
                IN (/\ user_get_passkey(e) # None
                    /\ out.users[e].passkey # user_get_passkey(e))
                   => e \in recovered

\* The ids that are keys of a ceremony state map.
LiveIds(states) == {id \in StateIds : states[id] # None}

\* C14 (as claimed): a begin-call that files a state files it under an id that
\* is not a key of the map; the keys grow by exactly that id and every entry
\* that was live keeps its state.
C14_BeginNeverOverwrites ==
    nextStateId \in StateIds =>
        /\ \A r \in RegisterBeginRequests(Emails) :
              LET out == register_begin(r.email_ok, r.email, r.reset_mode, r.lookup_ok)
              IN out.issued = 1 =>
                    /\ nextStateId \notin LiveIds(REGISTRATION_STATES)
                    /\ LiveIds(out.states) = LiveIds(REGISTRATION_STATES) \cup {nextStateId}
                    /\ \A id \in LiveIds(REGISTRATION_STATES) :
                          out.states[id] = REGISTRATION_STATES[id]
        /\ \A e \in Emails :
              LET out == login_begin(TRUE, e)
              IN out.issued = 1 =>
                    /\ nextStateId \notin LiveIds(AUTHENTICATION_STATES)
                    /\ LiveIds(out.states) = LiveIds(AUTHENTICATION_STATES) \cup {nextStateId}
                    /\ \A id \in LiveIds(AUTHENTICATION_STATES) :
                          out.states[id] = AUTHENTICATION_STATES[id]

\* C15 (as claimed): when the user record and CREDENTIAL_STORE hold the same
\* passkey for an identity and a register_complete for that identity returns
\* success as the last of the completions in flight, they still hold the same
\* passkey.
C15_StoreAndUserRecordAgree ==
    \A p \in Procs :
        (pc[p] = "rc_persist" /\ \A q \in Procs \ {p} : pc[q] = "idle") =>
            \A db \in DbResults :
                LET e == loc[p].email
                    out == register_complete_persist(p, db)
                IN (/\ user_get_passkey(e) # None
                    /\ user_get_passkey(e) = CREDENTIAL_STORE[e]
                    /\ out.ret.status = 200)
                   => out.users[e].passkey = CREDENTIAL_STORE[e]

\* C16 (as claimed): complete_registration leaves CREDENTIAL_STORE as it found
\* it, whatever the response and whether or not it verifies.
C16_CompleteRegistrationWritesNothing ==
    \A p \in Procs :
        pc[p] = "rc_verify" =>
            \A req \in RegisterCompleteFields(Emails) :
                complete_registration(CREDENTIAL_STORE, req.email, req.response,
                                      loc[p].stored_state).store = CREDENTIAL_STORE

\* A register_complete response that is well formed and answers the ceremony
\* state st with a passkey that st does not exclude.
ValidRegisterResponse(req, st) ==
    /\ req.well_formed
    /\ req.response.origin = RpOrigin
    /\ req.response.challenge = st.challenge
    /\ req.response.attestation_ok
    /\ req.response.cred_id \notin st.exclude

\* C17: a register_complete that obtained the state leaves none behind, so a
\* second complete-call with the same id is rejected; it passes verification on
\* every valid response and only on responses whose credential id is not in the
\* ceremony's exclusion list; and when it returns 200, the passkey it handed to
\* user::set_passkey has an id that is not in the ceremony's exclusion list.
C17_CompletesOnceOutsideExclusion ==
    /\ \A p \in Procs :
          pc[p] = "rc_verify" =>
            /\ REGISTRATION_STATES[loc[p].state_id] = None
            /\ \A r2 \in ValidRegisterCompleteRequests :
                  r2.state_id = loc[p].state_id =>
                    register_complete_consume(REGISTRATION_STATES, r2).ret
                        = UnknownRegistration
            /\ \A req \in RegisterCompleteFields(Emails) :
                  LET out == register_complete_verify(p, req)
                  IN /\ ValidRegisterResponse(req, loc[p].stored_state)
                          => out.pc = "rc_read"
                     /\ out.pc = "rc_read" =>
                          req.response.cred_id \notin loc[p].stored_state.exclude
    /\ \A p \in Procs :
          pc[p] = "rc_persist" =>
            \A db \in DbResults :
                LET out == register_complete_persist(p, db)
                IN out.ret = Response("register_complete", 200, "OK") =>
                      loc[p].passkey.cred_id \notin loc[p].stored_state.exclude

\* A login_complete response that answers the ceremony state st with one of its
\* allowed passkeys, signed, user present, counter in order.
ValidAuthResponse(response, st) ==
    /\ response.origin = RpOrigin
    /\ response.challenge = st.challenge
    /\ \E pk \in st.allowed :
          pk.cred_id = response.cred_id /\ counter_ok(response.counter, pk.counter)
    /\ response.sig_ok
    /\ response.user_present

\* C18: a complete-call whose response carries a challenge other than the one
\* of the consumed state is rejected: register_complete returns "Failed to
\* complete registration" (or "Invalid response") with CREDENTIAL_STORE as it
\* was, login_complete returns "Failed to complete authentication" with the
\* sessions as they were.
C18_ChallengeMismatchRejected ==
    \A p \in Procs :
        /\ pc[p] = "rc_verify" =>
              \A req \in RegisterCompleteFields(Emails) :
                  req.response.challenge # loc[p].stored_state.challenge =>
                      LET out == register_complete_verify(p, req)
                      IN /\ out.pc = "idle"
                         /\ out.ret.status \in {400, 403}
                         /\ out.store = CREDENTIAL_STORE
        /\ InFlightLogin(p) =>
              \A req \in LoginCompleteFields :
                  req.response.challenge # loc[p].stored_state.challenge =>
                      LET out == login_complete_verify(p, req)
                      IN out.ret = LoginFailed /\ out.sessions = sessions

\* C18 witness: a login_complete is at verification and a response that would
\* verify but for its challenge is rejected.
C18_Witness ==
    \E p \in Procs :
        /\ InFlightLogin(p)
        /\ \E req \in LoginCompleteFields, c \in ClientStateIds :
              /\ c # req.response.challenge
              /\ ValidAuthResponse(req.response, loc[p].stored_state)
              /\ login_complete_verify(p, [req EXCEPT !.response.challenge = c]).ret
                    = LoginFailed

\* C19: a complete-call whose response embeds an origin other than the
\* configured relying-party origin is rejected, whatever the rest of the
\* response: nothing is stored and no session is marked.
C19_OriginMismatchRejected ==
    \A p \in Procs :
        /\ pc[p] = "rc_verify" =>
              \A req \in RegisterCompleteFields(Emails) :
                  req.response.origin # "http://localhost:8080" =>
                      LET out == register_complete_verify(p, req)
                      IN /\ out.pc = "idle"
                         /\ out.ret.status \in {400, 403}
                         /\ out.store = CREDENTIAL_STORE
        /\ InFlightLogin(p) =>
              \A req \in LoginCompleteFields :
                  req.response.origin # "http://localhost:8080" =>
                      LET out == login_complete_verify(p, req)
                      IN out.ret = LoginFailed /\ out.sessions = sessions

\* C19 witness: a login_complete is at verification and a response that would
\* verify but for its origin is rejected.
C19_Witness ==
    \E p \in Procs :
        /\ InFlightLogin(p)
        /\ \E req \in LoginCompleteFields, o \in Origins :
              /\ o # req.response.origin
              /\ ValidAuthResponse(req.response, loc[p].stored_state)
              /\ login_complete_verify(p, [req EXCEPT !.response.origin = o]).ret
                    = LoginFailed

\* C20 (as claimed): register_complete answers a state_id that was issued and
\* consumed, and one that was issued and has expired, exactly as it answers a
\* state_id that was never issued (0): same response, and the call ends there.
C20_UnknownCausesIndistinguishable ==
    \A req \in ValidRegisterCompleteRequests :
        LET never == register_complete_consume(REGISTRATION_STATES,
                                               [req EXCEPT !.state_id = 0])
            out == register_complete_consume(REGISTRATION_STATES, req)
            issued == req.state_id \in StateIds /\ req.state_id < nextStateId
            consumed == issued /\ REGISTRATION_STATES[req.state_id] = None
            expired == /\ issued
                       /\ REGISTRATION_STATES[req.state_id] # None
                       /\ Expired(REGISTRATION_STATES[req.state_id])
        IN (consumed \/ expired) => (out.ret = never.ret /\ out.pc = never.pc)

\* C21: whichever check of the library fails, a register_complete that reached
\* verification with a well-formed response answers 403 "Failed to complete
\* registration" and a login_complete answers 400 "Failed to complete
\* authentication": the response is the same for every failing response.
C21_VerificationFailuresCollapse ==
    \A p \in Procs :
        /\ pc[p] = "rc_verify" =>
              \A req \in RegisterCompleteFields(Emails) :
                  (req.well_formed
                      /\ ~finish_passkey_registration(req.response, loc[p].stored_state))
                  => LET out == register_complete_verify(p, req)
                     IN /\ out.pc = "idle"
                        /\ out.ret = Response("register_complete", 403,
                                               "Failed to complete registration")
        /\ InFlightLogin(p) =>
              \A req \in LoginCompleteFields :
                  ~finish_passkey_authentication(req.response, loc[p].stored_state)
                  => login_complete_verify(p, req).ret = LoginFailed

\* C21 witness: a register_complete is at verification, and a response that
\* fails on its origin only and one that fails on its challenge only get the
\* same answer.
C21_Witness ==
    \E p \in Procs :
        /\ pc[p] = "rc_verify"
        /\ \E req \in RegisterCompleteFields(Emails), o \in Origins, c \in ClientStateIds :
              /\ ValidRegisterResponse(req, loc[p].stored_state)
              /\ o # req.response.origin
              /\ c # req.response.challenge
              /\ register_complete_verify(p, [req EXCEPT !.response.origin = o]).ret
                    = register_complete_verify(p, [req EXCEPT !.response.challenge = c]).ret
              /\ register_complete_verify(p, [req EXCEPT !.response.origin = o]).ret.status
                    = 403

\* C22: a ceremony state that was filed and is never completed is eventually
\* gone from its map.
C22_AbandonedCeremonyEvicted ==
    \A s \in StateIds :
        /\ (REGISTRATION_STATES[s] # None) ~> (REGISTRATION_STATES[s] = None)
        /\ (AUTHENTICATION_STATES[s] # None) ~> (AUTHENTICATION_STATES[s] = None)

\* C23: an identity that has a passkey in CREDENTIAL_STORE has one after every
\* step; the passkey it holds changes only in the verification step of a
\* register_complete that names the identity and consumed a ceremony begun for
\* it; and when a register_complete of an enrolled identity returns anything
\* but 200, CREDENTIAL_STORE holds for the identity the passkey of its user
\* record, as it did before the call.
C23_CredentialChangedOnlyBySuccessfulRegistration ==
    [][/\ \A e \in Emails :
             CREDENTIAL_STORE[e] # None =>
               /\ CREDENTIAL_STORE'[e] # None
               /\ CREDENTIAL_STORE'[e] # CREDENTIAL_STORE[e] =>
                     \E p \in Procs :
                         /\ pc[p] = "rc_verify" /\ pc'[p] = "rc_read"
                         /\ loc'[p].email = e
                         /\ loc[p].stored_state.user_name = e
       /\ \A p \in Procs :
             (/\ pc[p] = "rc_persist" /\ pc'[p] = "idle"
              /\ ret'.status # 200
              /\ user_get_passkey(loc[p].email) # None)
             => CREDENTIAL_STORE'[loc[p].email] = user_get_passkey(loc[p].email)
      ]_vars

\* C24: when login_complete succeeds, the session holds, besides the
\* "authenticated" entry, an entry whose value is the identity the consumed
\* ceremony was begun for.
C24_SessionRecordsIdentity ==
    \A p \in Procs :
        InFlightLogin(p) =>
            \A req \in LoginCompleteFields :
                LET out == login_complete_verify(p, req)
                IN out.ret = LoginSucceeded =>
                      /\ <<"authenticated", TRUE>> \in session_entries(out.sessions, req.session)
                      /\ \E kv \in session_entries(out.sessions, req.session) :
                            /\ kv[1] # "authenticated"
                            /\ kv[2] = loc[p].stored_state.user_name

\* The doctors of the target's medical folder list the subject, a doctor.
TreatingDoctor(subject, target) ==
    /\ subject.role = "Doctor"
    /\ target.medical_folder # None
    /\ subject.id \in target.medical_folder.doctors

\* C25: read_report returns Ok exactly when the subject is an admin, or the
\* author of the report, or a doctor listed in the medical folder of the
\* report's patient; otherwise AccessDenied.
C25_ReadReportGrantedExactly ==
    (result # None /\ result.op = "read_report") =>
        /\ result.ret \in {"Ok", "AccessDenied"}
        /\ result.ret = "Ok" <=>
              \/ args.subject.role = "Admin"
              \/ args.subject.id = args.report.author
              \/ TreatingDoctor(args.subject, args.target)

C27_HashVerifyRoundTrip ==
    /\ (result # None /\ result.op = "verify" /\ result.maybe_hash # None) =>
          /\ result.maybe_hash \in {hash(args.password, salt) : salt \in Salts}
          /\ result.ret = (args.attempt = args.password)
    /\ \A s1, s2 \in Salts :
          s1 # s2 =>
            /\ hash(args.password, s1) # hash(args.password, s2)
            /\ verify(args.password, hash(args.password, s1), EMPTY_HASH, FALSE).ret
            /\ verify(args.password, hash(args.password, s2), EMPTY_HASH, FALSE).ret

\* C27 witness: a wrong password was tried against the hash of the empty
\* password and refused.
C27_Witness ==
    /\ result # None
    /\ result.op = "verify"
    /\ result.maybe_hash # None
    /\ args.password = ""
    /\ args.attempt # ""
    /\ ~result.ret

\* The verify_password calls among the library calls of a verify.
Verifications(calls) == SelectSeq(calls, LAMBDA c : c.fn = "verify_password")

CanonicalAvs(digits) ==
    SubSeq(digits, 1, 3) \o <<".">> \o SubSeq(digits, 4, 7) \o <<".">>
        \o SubSeq(digits, 8, 11) \o <<".">> \o SubSeq(digits, 12, 13)

\* C29: the Display output of an AVSNumber that try_from accepted is the
\* canonical dotted form of the thirteen digits of the input, whichever dots
\* the input had.
C29_DisplayIsCanonical ==
    (result # None /\ result.op = "AVSNumber::to_string") =>
        result.display = CanonicalAvs(replace_dots(args.input))

\* Every character of the string is alphanumeric, '_', '-' or '.'.
OnlyUsernameChars(username) ==
    \A i \in 1..Len(username) : username[i] \in MiddleChars

MaxLengthOf(op) ==
    IF op = "try_new_short_form_content" THEN MaxShortFormLen ELSE MaxLongFormLen

\* C31: a TextualContent constructor returns Some exactly when the trimmed
\* input is non-empty, at most the limit of the constructor long (250 short
\* form, 2000 long form, the limit included), free of control characters and
\* not HTML; the value kept is the trimmed input; every other input gives None.
C31_TextualContentAcceptedExactly ==
    (result # None /\ args # None /\ args.fn = "TextualContent") =>
        LET t == trim(args.input)
            acceptable == /\ Len(t) >= 1
                          /\ str_len(t) <= MaxLengthOf(result.op)
                          /\ \A i \in 1..Len(t) : t[i] \notin ControlChars
                          /\ ~is_html(t)
        IN /\ acceptable => result.out = [some |-> t]
           /\ ~acceptable => result.out = None

\* An input of exactly 250 bytes after trimming, with white space around it,
\* accepted by the short form and kept trimmed.
C31_Witness ==
    /\ result # None
    /\ args.fn = "TextualContent"
    /\ result.op = "try_new_short_form_content"
    /\ result.out # None
    /\ result.out.some # args.input
    /\ str_len(result.out.some) = MaxShortFormLen

\* C32: register_begin files a registration state only when the request's
\* reset_mode and the existence of the user agree (reset_mode with an existing
\* user, no reset_mode with no such user); in every other case, a failed
\* existence lookup included, it answers with an error, issues no id and
\* leaves REGISTRATION_STATES as it was.
C32_BeginFilesOnlyWhenModeAgrees ==
    \A r \in RegisterBeginRequests(Emails) :
        LET out == register_begin(r.email_ok, r.email, r.reset_mode, r.lookup_ok)
            agree == r.lookup_ok /\ r.reset_mode = user_exists(r.email)
        IN /\ out.states # REGISTRATION_STATES => agree
           /\ out.ret.status = 200 => agree
           /\ ~agree => /\ out.ret.status >= 400
                        /\ out.issued = 0
                        /\ out.states = REGISTRATION_STATES

\* Both agreeing cases have filed a state: one for the enrolled a@x (reset
\* mode) and one for the unknown b@x.
C32_Witness ==
    /\ ret = Response("register_begin", 200, "publicKey")
    /\ \E s1, s2 \in StateIds :
          /\ REGISTRATION_STATES[s1] # None
          /\ REGISTRATION_STATES[s2] # None
          /\ REGISTRATION_STATES[s1].user_name = "a@x"
          /\ REGISTRATION_STATES[s2].user_name = "b@x"
          /\ user_exists("a@x")
          /\ ~user_exists("b@x")

\* C33: register_complete applies the mode its ceremony was begun with: it
\* creates a user record only for a ceremony that register_begin accepted
\* without reset_mode, and it replaces the passkey of an existing user only for
\* a ceremony that register_begin accepted with reset_mode.
C33_CompleteAppliesBeginMode ==
    \A p \in Procs :
        pc[p] = "rc_persist" =>
            \A db \in DbResults :
                LET out == register_complete_persist(p, db)
                    email == loc[p].email
                    begun_reset_mode == loc[p].stored_state.begun_reset_mode
                    creates == users[email] = None /\ out.users[email] # None
                    replaces == /\ users[email] # None
                                /\ users[email].passkey # None
                                /\ out.users[email].passkey # users[email].passkey
                IN /\ creates => ~begun_reset_mode
                   /\ replaces => begun_reset_mode

\* C34: a register_complete that returns an error leaves CREDENTIAL_STORE as
\* the call found it: a rejection in the verification step writes nothing, and
\* when the call fails after the verification (user::create or
\* user::set_passkey fails) the identity holds the passkey it held before the
\* call.
C34_FailedCompleteLeavesStore ==
    \A p \in Procs :
        /\ pc[p] = "rc_verify" =>
              \A req \in RegisterCompleteFields(Emails) :
                  LET out == register_complete_verify(p, req)
                  IN out.pc = "idle" => out.store = CREDENTIAL_STORE
        /\ pc[p] = "rc_persist" =>
              \A db \in DbResults :
                  register_complete_persist(p, db).ret.status # 200 =>
                      CREDENTIAL_STORE[loc[p].email] = loc[p].replaced

\* C35: a request passes the SessionUser extractor exactly when its session
\* holds the "authenticated" entry; when logout has deleted a session, a
\* request on it is answered 401 Unauthorized; and a session on which requests
\* are refused comes to pass the extractor only by a login_complete that
\* succeeds on it.
C35_GateFollowsSession ==
    [][\A s \in Sessions :
          /\ from_request_parts(sessions, s) = Response("SessionUser", 200, "Ok")
                <=> <<"authenticated", TRUE>> \in session_entries(sessions, s)
          /\ from_request_parts(sessions, s) # Response("SessionUser", 200, "Ok")
                => from_request_parts(sessions, s)
                      = Response("SessionUser", 401, "Unauthorized")
          /\ (ret' = Response("logout", 303, "/") /\ sessions' = logout(s))
                => from_request_parts(sessions', s)
                      = Response("SessionUser", 401, "Unauthorized")
          /\ (/\ from_request_parts(sessions, s).status = 401
              /\ from_request_parts(sessions', s).status = 200)
                => \E p \in Procs :
                       /\ pc[p] = "lc_verify"
                       /\ pc'[p] = "idle"
                       /\ ret' = LoginSucceeded
      ]_vars

\* logout has answered, the session holds nothing, and every authentication
\* ceremony begun so far was consumed by a login_complete.
C35_Witness ==
    /\ ret = Response("logout", 303, "/")
    /\ \A s \in Sessions : session_entries(sessions, s) = {}
    /\ nextStateId > 1
    /\ \A id \in StateIds : id < nextStateId => AUTHENTICATION_STATES[id] = None

\* C36: recover_account gives the same success answer whether or not the
\* e-mail is that of an existing, verified user, and whether or not the mail
\* could be delivered; a token is generated and a mail sent only for an
\* existing, verified user.
C36_RecoverAnswersAlike ==
    \A e1, e2 \in Emails : \A db1, db2, mail1, mail2 \in BOOLEAN :
        LET o1 == recover_account(TRUE, e1, db1, mail1)
            o2 == recover_account(TRUE, e2, db2, mail2)
        IN /\ o1.ret = Response("recover_account", 200, "recover success")
           /\ o1.ret = o2.ret
           /\ (o1.tokens # tokens \/ o1.mail # "none")
                 => user_get(e1) # None /\ user_get(e1).verified

====
